---- MODULE Spec2Model ----
(***************************************************************************)
(* Model of the cyber_care event pipeline: the Event Propagator            *)
(* (src/cybercare/event_propagator.py) posting events picked at random     *)
(* from a catalog to the Event Consumer (src/cybercare/event_consumer.py), *)
(* which validates each POST /event body and stores it in SQLite.          *)
(***************************************************************************)
EXTENDS Integers, Sequences, FiniteSets, TLC

\* ------------------------------------------------------------------ bounds
MaxClientReqs == 2      \* requests issued by clients other than the propagator
MaxPending == 2         \* client requests awaiting their answer at one time
MaxTicks == 2           \* completed sleeps of the propagator loop
MaxStarts == 2          \* starts of the consumer process

\* ------------------------------------------------------------- JSON values
\* A field of a JSON object: absent, a non-string value, or a string.
Absent == [t |-> "absent", s |-> ""]
IntV == [t |-> "int", s |-> ""]
Str(x) == [t |-> "str", s |-> x]

Obj(a, b) == [kind |-> "object", event_type |-> a, event_payload |-> b]
NonObj(k) == [kind |-> k, event_type |-> Absent, event_payload |-> Absent]

\* Request bodies: bytes that are not UTF-8, text that is not JSON, JSON
\* values that are not objects, and JSON objects.
NonObjectKinds == {"array", "number", "string", "null"}
Login == Obj(Str("login"), Str("user123"))
NoPayload == Obj(Str("login"), Absent)
NoType == Obj(Absent, Str("user123"))
EmptyObject == Obj(Absent, Absent)
IntPayload == Obj(Str("login"), IntV)
EmptyType == Obj(Str(""), Str("user123"))
EmptyPayload == Obj(Str("login"), Str(""))
Bodies ==
    {Login, NoPayload, NoType, EmptyObject, IntPayload, EmptyType,
     EmptyPayload}
        \cup {NonObj(k) : k \in {"badutf8", "malformed"} \cup NonObjectKinds}

\* ---------------------------------------------------------------- storage
Locations == {"events.db", "other.db"}

NoTable == [exists |-> FALSE, rows |-> <<>>, seq |-> 0]
EmptyTable == [exists |-> TRUE, rows |-> <<>>, seq |-> 0]

RECURSIVE MaxId(_)
MaxId(rows) ==
    IF rows = <<>> THEN 0
    ELSE LET m == MaxId(Tail(rows)) IN
         IF Head(rows).id > m THEN Head(rows).id ELSE m

\* Mutant: the id is taken from a counter read before another insert.
NextId_reuse(d) == IF d.seq = 0 THEN 1 ELSE d.seq

\* INTEGER PRIMARY KEY AUTOINCREMENT: one more than the largest id the table
\* has ever held (sqlite_sequence), which is at least the largest id present.
NextId(d) ==
    (IF d.seq > MaxId(d.rows) THEN d.seq ELSE MaxId(d.rows)) + 1

\* Mutant: the table is dropped and created anew at every start.
init_database_reset(d, ok) ==
    IF ~ok THEN [raised |-> TRUE, store |-> d]
    ELSE [raised |-> FALSE, store |-> EmptyTable]

\* Mutant: CREATE TABLE without IF NOT EXISTS fails on an existing table.
init_database_strict(d, ok) ==
    IF ~ok \/ d.exists THEN [raised |-> TRUE, store |-> d]
    ELSE [raised |-> FALSE, store |-> EmptyTable]

\* DatabaseManager.init_database on the file d, the storage working or not:
\* CREATE TABLE IF NOT EXISTS.
init_database(d, ok) ==
    IF ~ok THEN [raised |-> TRUE, store |-> d]
    ELSE IF d.exists THEN [raised |-> FALSE, store |-> d]
    ELSE [raised |-> FALSE, store |-> EmptyTable]

\* Mutant: INSERT OR REPLACE keyed on event_type.
save_event_replace(d, ok, event_type, event_payload, now) ==
    IF ~ok \/ ~d.exists THEN
        [raised |-> TRUE, cause |-> "unable to open database file",
         event_id |-> 0, store |-> d]
    ELSE LET id == NextId(d) IN
        [raised |-> FALSE, cause |-> "", event_id |-> id,
         store |-> [d EXCEPT
            !.rows = Append(SelectSeq(@, LAMBDA r : r.event_type # event_type),
                            [id |-> id, event_type |-> event_type,
                             event_payload |-> event_payload,
                             received_at |-> now]),
            !.seq = id]]

\* Mutant: each statement is committed at once, and a failure of commit()
\* leaves the inserted row behind.
save_event_partial(d, ok, event_type, event_payload, now) ==
    IF ~d.exists THEN
        [raised |-> TRUE, cause |-> "no such table: events",
         event_id |-> 0, store |-> d]
    ELSE LET id == NextId(d) IN
        [raised |-> ~ok,
         cause |-> IF ok THEN "" ELSE "unable to open database file",
         event_id |-> IF ok THEN id ELSE 0,
         store |-> [d EXCEPT
            !.rows = Append(@, [id |-> id, event_type |-> event_type,
                                event_payload |-> event_payload,
                                received_at |-> now]),
            !.seq = id]]

\* Mutant: lastrowid is read before the INSERT.
save_event_stale_id(d, ok, event_type, event_payload, now) ==
    IF ~ok \/ ~d.exists THEN
        [raised |-> TRUE, cause |-> "unable to open database file",
         event_id |-> 0, store |-> d]
    ELSE LET id == NextId(d) IN
        [raised |-> FALSE, cause |-> "", event_id |-> d.seq,
         store |-> [d EXCEPT
            !.rows = Append(@, [id |-> id, event_type |-> event_type,
                                event_payload |-> event_payload,
                                received_at |-> now]),
            !.seq = id]]

\* DatabaseManager.save_event on the file d: one INSERT, committed, or an
\* exception that leaves the file as it was.
save_event(d, ok, event_type, event_payload, now) ==
    IF ~ok THEN
        [raised |-> TRUE, cause |-> "unable to open database file",
         event_id |-> 0, store |-> d]
    ELSE IF ~d.exists THEN
        [raised |-> TRUE, cause |-> "no such table: events",
         event_id |-> 0, store |-> d]
    ELSE LET id == NextId(d) IN
        [raised |-> FALSE, cause |-> "", event_id |-> id,
         store |-> [d EXCEPT
            !.rows = Append(@, [id |-> id, event_type |-> event_type,
                                event_payload |-> event_payload,
                                received_at |-> now]),
            !.seq = id]]

\* ------------------------------------------------------------- validation
\* request.json(): json.loads of the body bytes.
RequestJson(body) ==
    IF body.kind = "badutf8" THEN "UnicodeDecodeError"
    ELSE IF body.kind = "malformed" THEN "JSONDecodeError"
    ELSE "ok"

\* Mutant: the fields are optional and default to the empty string.
FieldError_optional(name, v) ==
    IF v.t # "absent" /\ v.t # "str"
    THEN name \o ": Input should be a valid string; "
    ELSE ""

\* The error pydantic reports for one field of EventModel, or none.
FieldError(name, v) ==
    IF v.t = "absent" THEN name \o ": Field required; "
    ELSE IF v.t # "str" THEN name \o ": Input should be a valid string; "
    ELSE ""

\* EventModel(**event_data): both fields required, both strings.
EventModel(body) ==
    IF body.kind # "object" THEN [raised |-> "TypeError", msg |-> ""]
    ELSE LET msg == FieldError("event_type", body.event_type)
                        \o FieldError("event_payload", body.event_payload) IN
         IF msg # "" THEN [raised |-> "ValidationError", msg |-> msg]
         ELSE [raised |-> "none", msg |-> ""]

\* ---------------------------------------------------------------- handler
\* What one call of receive_event yields: the HTTP status, the detail of an
\* error response, the "status" and "event_id" members of a success response,
\* the store afterwards and the last line printed.
Reply(status, detail, result, event_id, store, printed) ==
    [status |-> status, detail |-> detail, result |-> result,
     event_id |-> event_id, store |-> store, printed |-> printed]

\* Mutant: the message built for the log is returned to the caller.
InternalError_leak(cause, d) ==
    Reply(500, "Internal server error: " \o cause, "", 0, d,
          "Unknown error: Internal server error: " \o cause)

\* except Exception in receive_event: the cause is printed, not returned.
InternalError(cause, d) ==
    Reply(500, "Internal server error", "", 0, d,
          "Unknown error: Internal server error: " \o cause)

\* except ValidationError in receive_event.
ValidationFailure(msg, d) ==
    Reply(400, "Invalid data format: " \o msg, "", 0, d, "Received data")

\* except json.JSONDecodeError in receive_event.
JsonFailure(d) ==
    Reply(400, "Invalid JSON format", "", 0, d,
          "JSON error: Invalid JSON format")

\* The body of receive_event after a successful validation.
SaveValid(body, d, ok, now) ==
    LET r == save_event(d, ok, body.event_type.s, body.event_payload.s, now) IN
    IF r.raised THEN InternalError(r.cause, r.store)
    ELSE Reply(200, "", "success", r.event_id, r.store, "Event saved")

\* POST /event: the response, the store afterwards and the last line printed.
receive_event(body, d, ok, now) ==
    LET j == RequestJson(body) IN
    IF j = "JSONDecodeError" THEN JsonFailure(d)
    ELSE IF j # "ok" THEN InternalError(j, d)
    ELSE LET e == EventModel(body) IN
         IF e.raised = "ValidationError" THEN ValidationFailure(e.msg, d)
         ELSE IF e.raised # "none" THEN InternalError(e.raised, d)
         ELSE SaveValid(body, d, ok, now)


\* -------------------------------------------------------------- propagator
\* The events files on disk: present with a JSON list, missing, text that
\* is not JSON, or bytes that are not UTF-8.
EventsFiles ==
    [f \in {"events.json", "mixed.json", "blank.json", "missing.json",
            "broken.json", "binary.json"} |->
        CASE f = "events.json" -> [state |-> "ok", events |-> <<Login>>]
          [] f = "mixed.json" ->
                [state |-> "ok", events |-> <<EmptyObject, Login, NoPayload>>]
          [] f = "blank.json" -> [state |-> "ok", events |-> <<EmptyObject>>]
          [] f = "missing.json" -> [state |-> "missing", events |-> <<>>]
          [] f = "broken.json" -> [state |-> "malformed", events |-> <<>>]
          [] f = "binary.json" -> [state |-> "badutf8", events |-> <<>>]]

\* EventPropagator.load_events: the list of the file; [] on FileNotFoundError
\* and on json.JSONDecodeError; any other exception leaves the method.
load_events(events_file) ==
    LET f == EventsFiles[events_file] IN
    IF f.state = "ok" THEN [raised |-> FALSE, events |-> f.events]
    ELSE IF f.state \in {"missing", "malformed"}
    THEN [raised |-> FALSE, events |-> <<>>]
    ELSE [raised |-> TRUE, events |-> <<>>]

\* EventPropagator.get_random_event: None, or any element of the catalog.
NoEvent == NonObj("null")
get_random_event(evs) ==
    IF evs = <<>> THEN {NoEvent} ELSE {evs[i] : i \in 1..Len(evs)}

\* "if event:" in EventPropagator.start: None and {} are falsy.
Truthy(event) == event # NoEvent /\ event # EmptyObject

\* Mutant: start() enters the loop whatever the catalog holds.
start_returns_never(evs) == FALSE

\* "if not self.events: return" at the top of EventPropagator.start.
start_returns(evs) == evs = <<>>

\* ------------------------------------------------------------------ state
VARIABLES
    db,          \* location -> the SQLite file: table, rows, sqlite_sequence
    storageOk,   \* whether the storage can be opened and written
    consumer,    \* "down" or "up": the consumer process
    db_path,     \* DatabaseManager.db_path of the running consumer
    config_path, \* config['database']['path'] of the running consumer
    info,        \* the "database" member of the last response of GET /
    starts,      \* number of times the consumer process was started
    inflight,    \* requests sent to POST /event and not answered yet
    clientReqs,  \* number of requests issued by clients
    resp,        \* the last response of POST /event
    history,     \* every response of POST /event, in order: status, event_id,
                 \* location, start of the process, line printed
    events_file, \* config['events_file'] of the propagator
    events,      \* EventPropagator.events, the catalog
    ppc,         \* where the propagator is: main, loop, sending, sleeping,
                 \* returned (start() ended), stopped (interrupted), crashed
    preply,      \* status of the response to the propagator's request, or 0
    sends,       \* number of calls of send_event
    ticks,       \* number of sleeps completed
    outcomes     \* outcome of every completed send, in order

vars == <<db, storageOk, consumer, db_path, config_path, info, starts,
          inflight, clientReqs, resp, history, events_file, events, ppc,
          preply, sends, ticks, outcomes>>

cvars == <<db, storageOk, consumer, db_path, config_path, info, starts,
           inflight, clientReqs, resp, history>>
pvars == <<events_file, events, ppc, preply, sends, ticks, outcomes>>

ConfigPath == "events.db"
ConfigEventsFiles == {"events.json", "missing.json"}

NoResp == [status |-> 0, detail |-> "", result |-> "", event_id |-> 0]
NoInfo == "none"

\* The connections a request can be on: 0 is the propagator's, the others
\* are clients'.
ClientSlots == 1..MaxPending
FreeSlots == {c \in ClientSlots : \A q \in inflight : q.slot # c}
Requests == {[slot |-> c, body |-> b] : c \in {0} \cup ClientSlots, b \in Bodies}

\* Both processes constructed from their configuration, neither started.
Init ==
    /\ db = [l \in Locations |-> NoTable]
    /\ storageOk = TRUE
    /\ consumer = "down"
    /\ db_path = ConfigPath
    /\ config_path = ConfigPath
    /\ info = NoInfo
    /\ starts = 0
    /\ inflight = {}
    /\ clientReqs = 0
    /\ resp = NoResp
    /\ history = <<>>
    /\ events_file \in ConfigEventsFiles
    /\ events = load_events(events_file).events
    /\ ppc = "main"
    /\ preply = 0
    /\ sends = 0
    /\ ticks = 0
    /\ outcomes = <<>>

\* ---------------------------------------------------------------- consumer
\* Mutant: --db-path rewrites the configuration and keeps the old manager.
db_manager_path_stale(override) == ConfigPath

\* The location of consumer.db_manager when main() serves: the configured
\* one, or that of the DatabaseManager built for --db-path.
db_manager_path(override) ==
    IF override = "none" THEN ConfigPath ELSE override

\* main() of the consumer: EventConsumer(config) opens the configured
\* location; --db-path then opens the overriding one.  A failing
\* init_database aborts the process before it serves.
ConsumerStart(override) ==
    /\ consumer = "down"
    /\ starts < MaxStarts
    /\ starts' = starts + 1
    /\ LET r1 == init_database(db[ConfigPath], storageOk)
           db1 == [db EXCEPT ![ConfigPath] = r1.store]
           loc == db_manager_path(override)
           r2 == init_database(db1[loc], storageOk)
       IN IF r1.raised \/ (override # "none" /\ r2.raised)
          THEN UNCHANGED <<db, consumer, db_path, config_path>>
          ELSE /\ db' = IF override = "none" THEN db1
                        ELSE [db1 EXCEPT ![loc] = r2.store]
               /\ db_path' = loc
               /\ config_path' = IF override = "none" THEN ConfigPath
                                 ELSE override
               /\ consumer' = "up"
    /\ UNCHANGED <<storageOk, info, inflight, clientReqs, resp, history>>
    /\ UNCHANGED pvars

\* The consumer process is stopped; its open connections are dropped.
ConsumerStop ==
    /\ consumer = "up"
    /\ consumer' = "down"
    /\ inflight' = {}
    /\ UNCHANGED <<db, storageOk, db_path, config_path, info, starts,
                   clientReqs, resp, history>>
    /\ UNCHANGED pvars

\* The storage becomes unavailable (I/O error), or works again.
StorageFail ==
    /\ storageOk
    /\ storageOk' = FALSE
    /\ UNCHANGED <<db, consumer, db_path, config_path, info, starts, inflight,
                   clientReqs, resp, history>>
    /\ UNCHANGED pvars

StorageRecover ==
    /\ ~storageOk
    /\ storageOk' = TRUE
    /\ UNCHANGED <<db, consumer, db_path, config_path, info, starts, inflight,
                   clientReqs, resp, history>>
    /\ UNCHANGED pvars

\* A client other than the propagator posts a body to /event.
ClientSubmit(body) ==
    /\ consumer = "up"
    /\ clientReqs < MaxClientReqs
    /\ FreeSlots # {}
    /\ clientReqs' = clientReqs + 1
    /\ inflight' = inflight \cup
            {[slot |-> CHOOSE c \in FreeSlots : \A e \in FreeSlots : c <= e,
              body |-> body]}
    /\ UNCHANGED <<db, storageOk, consumer, db_path, config_path, info,
                   starts, resp, history>>
    /\ UNCHANGED pvars

\* GET /, one more request of a client, answered at once: the service name,
\* "running" and the configured storage location.
Root ==
    /\ consumer = "up"
    /\ clientReqs < MaxClientReqs
    /\ clientReqs' = clientReqs + 1
    /\ info' = config_path
    /\ UNCHANGED <<db, storageOk, consumer, db_path, config_path, starts,
                   inflight, resp, history>>
    /\ UNCHANGED pvars

\* datetime.now() at the next call of the handler: a logical clock.
Now == Len(history) + 1

\* receive_event runs on one pending request and answers it.
ReceiveEvent(q) ==
    /\ consumer = "up"
    /\ q \in inflight
    /\ LET r == receive_event(q.body, db[db_path], storageOk, Now) IN
        /\ db' = [db EXCEPT ![db_path] = r.store]
        /\ resp' = [status |-> r.status, detail |-> r.detail,
                    result |-> r.result, event_id |-> r.event_id]
        /\ history' = Append(history,
                        [status |-> r.status, event_id |-> r.event_id,
                         loc |-> db_path, start |-> starts,
                         printed |-> r.printed])
        /\ preply' = IF q.slot = 0 THEN r.status ELSE preply
    /\ inflight' = inflight \ {q}
    /\ UNCHANGED <<storageOk, consumer, db_path, config_path, info, starts,
                   clientReqs>>
    /\ UNCHANGED <<events_file, events, ppc, sends, ticks, outcomes>>

\* -------------------------------------------------------------- propagator
\* main() of the propagator: an --events-file override reloads the catalog;
\* start() returns at once when the catalog is empty.
PropagatorMain(override) ==
    /\ ppc = "main"
    /\ events_file' = IF override = "none" THEN events_file ELSE override
    /\ IF override # "none" /\ load_events(override).raised
       THEN /\ events' = events
            /\ ppc' = "crashed"
       ELSE /\ events' = IF override = "none" THEN events
                         ELSE load_events(override).events
            /\ ppc' = IF start_returns(events') THEN "returned" ELSE "loop"
    /\ UNCHANGED <<preply, sends, ticks, outcomes>>
    /\ UNCHANGED cvars

\* Mutant: the post is left to a task of its own and the loop goes to sleep.
PropagatorSelect_nowait ==
    /\ ppc = "loop"
    /\ \E event \in get_random_event(events) :
        /\ Truthy(event)
        /\ sends <= MaxTicks
        /\ ppc' = "sleeping"
        /\ sends' = sends + 1
        /\ inflight' = inflight \cup {[slot |-> 0, body |-> event]}
    /\ UNCHANGED <<events_file, events, preply, ticks, outcomes>>
    /\ UNCHANGED <<db, storageOk, consumer, db_path, config_path, info, starts,
                   clientReqs, resp, history>>

\* One pass of the loop up to its first suspension: pick an event and, when
\* it is truthy, post it; the post fails at once when nothing listens.
PropagatorSelect ==
    /\ ppc = "loop"
    /\ \E event \in get_random_event(events) :
        IF ~Truthy(event) THEN
            /\ ppc' = "sleeping"
            /\ UNCHANGED <<preply, sends, outcomes>>
            /\ UNCHANGED cvars
        ELSE IF consumer = "up" THEN
            /\ sends <= MaxTicks
            /\ ppc' = "sending"
            /\ preply' = 0
            /\ sends' = sends + 1
            /\ inflight' = inflight \cup {[slot |-> 0, body |-> event]}
            /\ UNCHANGED outcomes
            /\ UNCHANGED <<db, storageOk, consumer, db_path, config_path,
                           info, starts, clientReqs, resp, history>>
        ELSE
            /\ sends <= MaxTicks
            /\ ppc' = "sleeping"
            /\ sends' = sends + 1
            /\ outcomes' = Append(outcomes, "TransportFailure")
            /\ UNCHANGED preply
            /\ UNCHANGED cvars
    /\ UNCHANGED <<events_file, events, ticks>>

\* send_event gets its response: status 200 or any other status.
PropagatorSendDone ==
    /\ ppc = "sending"
    /\ preply # 0
    /\ outcomes' = Append(outcomes,
                          IF preply = 200 THEN "Delivered" ELSE "Rejected")
    /\ ppc' = "sleeping"
    /\ preply' = 0
    /\ UNCHANGED <<events_file, events, sends, ticks>>
    /\ UNCHANGED cvars

\* send_event catches an exception of the transport: the connection is lost
\* with the request still pending, or with its response on the way back.
PropagatorSendFail ==
    /\ ppc = "sending"
    /\ outcomes' = Append(outcomes, "TransportFailure")
    /\ ppc' = "sleeping"
    /\ preply' = 0
    /\ inflight' = {q \in inflight : q.slot # 0}
    /\ UNCHANGED <<events_file, events, sends, ticks>>
    /\ UNCHANGED <<db, storageOk, consumer, db_path, config_path, info, starts,
                   clientReqs, resp, history>>

\* asyncio.sleep(interval_seconds) completes.  ticks counts the sleeps up
\* to MaxTicks and stays there: ticks = MaxTicks reads "MaxTicks or more".
PropagatorTick ==
    /\ ppc = "sleeping"
    /\ ticks' = IF ticks < MaxTicks THEN ticks + 1 ELSE ticks
    /\ ppc' = "loop"
    /\ UNCHANGED <<events_file, events, preply, sends, outcomes>>
    /\ UNCHANGED cvars

\* SIGINT: asyncio.run cancels the main task, which raises CancelledError at
\* the await the task is suspended on (client.post or asyncio.sleep); neither
\* "except Exception" nor "except KeyboardInterrupt" catches it, and the
\* connection of a send under way is closed.
PropagatorInterrupt ==
    /\ ppc \in {"sending", "sleeping"}
    /\ ppc' = "stopped"
    /\ preply' = 0
    /\ inflight' = {q \in inflight : q.slot # 0}
    /\ UNCHANGED <<events_file, events, sends, ticks, outcomes>>
    /\ UNCHANGED <<db, storageOk, consumer, db_path, config_path, info, starts,
                   clientReqs, resp, history>>

\* ---------------------------------------------------------- specifications
\* The consumer serving clients.
NextConsumer ==
    \/ \E o \in {"none"} \cup Locations : ConsumerStart(o)
    \/ ConsumerStop
    \/ StorageFail
    \/ StorageRecover
    \/ \E b \in Bodies : ClientSubmit(b)
    \/ \E q \in Requests : ReceiveEvent(q)
    \/ Root

SpecConsumer == Init /\ [][NextConsumer]_vars

\* The propagator posting to the consumer.
NextPipeline ==
    \/ \E o \in {"none"} \cup Locations : ConsumerStart(o)
    \/ ConsumerStop
    \/ StorageFail
    \/ StorageRecover
    \/ \E q \in Requests : ReceiveEvent(q)
    \/ \E o \in {"none"} \cup DOMAIN EventsFiles : PropagatorMain(o)
    \/ PropagatorSelect
    \/ PropagatorSendDone
    \/ PropagatorSendFail
    \/ PropagatorTick
    \/ PropagatorInterrupt

SpecPipeline == Init /\ [][NextPipeline]_vars

\* The pipeline with no stop signal, in which the event loop runs every
\* task that can run, every send resolves, and random.choice does not avoid
\* the events that can be sent for ever.
NextPipelineFair ==
    \/ \E o \in {"none"} \cup Locations : ConsumerStart(o)
    \/ ConsumerStop
    \/ StorageFail
    \/ StorageRecover
    \/ \E q \in Requests : ReceiveEvent(q)
    \/ \E o \in {"none"} \cup DOMAIN EventsFiles : PropagatorMain(o)
    \/ PropagatorSelect
    \/ PropagatorSendDone
    \/ PropagatorSendFail
    \/ PropagatorTick

SpecPipelineFair ==
    /\ Init
    /\ [][NextPipelineFair]_vars
    /\ WF_vars(\E o \in {"none"} \cup DOMAIN EventsFiles : PropagatorMain(o))
    /\ WF_vars(PropagatorSelect)
    /\ SF_vars(PropagatorSelect /\ sends' = sends + 1)
    /\ WF_vars(PropagatorSendDone \/ PropagatorSendFail)
    /\ WF_vars(PropagatorTick)

\* Both together.
Next == NextConsumer \/ NextPipeline

Spec == Init /\ [][Next]_vars

\* ------------------------------------------------------------- properties
\* The handler answers the pending request q in this step.
Answers(q) ==
    /\ q \in inflight
    /\ q \notin inflight'
    /\ Len(history') = Len(history) + 1

\* The body passes EventModel: an object whose two fields are strings.
IsValid(body) ==
    /\ body.kind = "object"
    /\ body.event_type.t = "str"
    /\ body.event_payload.t = "str"

\* The status-200 responses given for location l, in order.
Issued(l) == SelectSeq(history, LAMBDA h : h.status = 200 /\ h.loc = l)

SaveFailedLine ==
    "Unknown error: Internal server error: unable to open database file"

\* C1: on one location the event_id of every successful submission is
\* greater than the event_id of every earlier successful one, restarts of the
\* consumer included, and no two stored rows share an id.
C1_IdsStrictlyIncrease ==
    \A l \in Locations :
        /\ \A i, j \in 1..Len(Issued(l)) :
              i < j => Issued(l)[i].event_id < Issued(l)[j].event_id
        /\ \A i, j \in 1..Len(db[l].rows) :
              i # j => db[l].rows[i].id # db[l].rows[j].id

\* Two successful submissions on one location with a restart in between.
C1_Witness ==
    \E l \in Locations : \E i, j \in 1..Len(Issued(l)) :
        /\ i < j
        /\ Issued(l)[i].start < Issued(l)[j].start

\* C2: a JSON object without event_payload is answered with status 400 and
\* a detail message, and no store changes, whatever the store's state.
C2_MissingPayloadRejected ==
    [][\A q \in inflight :
          (Answers(q) /\ q.body.kind = "object"
                      /\ q.body.event_payload.t = "absent")
          => (resp'.status = 400 /\ resp'.detail # "" /\ db' = db)]_vars

\* A body with event_type and without event_payload has been answered.
C2_Witness ==
    /\ resp.status = 400
    /\ resp.detail = "Invalid data format: event_payload: Field required; "
    /\ \E l \in Locations : db[l].rows # <<>>

\* C3: a body that does not parse as JSON is answered with status 400 and
\* detail "Invalid JSON format", and no store changes.
C3_UnparseableRejected ==
    [][\A q \in inflight :
          (Answers(q) /\ q.body.kind \in {"badutf8", "malformed"})
          => (resp'.status = 400 /\ resp'.detail = "Invalid JSON format"
              /\ db' = db)]_vars

\* C4: a valid body, the storage working, appends exactly one row holding
\* the submitted fields to the current location, changes no other row, and
\* is answered 200, "success", with the id of the new row.
C4_ValidSubmissionStored ==
    [][\A q \in inflight :
          (Answers(q) /\ IsValid(q.body) /\ storageOk)
          => /\ resp'.status = 200
             /\ resp'.result = "success"
             /\ Len(db'[db_path].rows) = Len(db[db_path].rows) + 1
             /\ SubSeq(db'[db_path].rows, 1, Len(db[db_path].rows))
                    = db[db_path].rows
             /\ LET row == db'[db_path].rows[Len(db'[db_path].rows)] IN
                    /\ row.event_type = q.body.event_type.s
                    /\ row.event_payload = q.body.event_payload.s
                    /\ row.id = resp'.event_id
             /\ \A l \in Locations \ {db_path} : db'[l] = db[l]]_vars

\* A valid submission answered 200 on a location that already held a row.
C4_Witness ==
    /\ resp.status = 200
    /\ Len(db[db_path].rows) >= 2
    /\ history # <<>>
    /\ history[Len(history)].status = 200
    /\ history[Len(history)].loc = db_path
    /\ db[db_path].rows[Len(db[db_path].rows)].id = resp.event_id

\* C5: a body whose event_type or event_payload is the empty string is
\* answered with status 400 and inserts no row, so that every stored row has
\* a non-empty event_type and a non-empty event_payload.
C5_EmptyFieldRejected ==
    [][/\ \A q \in inflight :
             (Answers(q) /\ q.body.kind = "object"
                 /\ (q.body.event_type = Str("")
                        \/ q.body.event_payload = Str("")))
             => (resp'.status = 400 /\ db' = db)
       /\ \A l \in Locations : \A i \in 1..Len(db'[l].rows) :
             /\ db'[l].rows[i].event_type # ""
             /\ db'[l].rows[i].event_payload # ""]_vars

\* C6: a body that does not match the schema (a missing field, a field of
\* the wrong type, a JSON value that is not an object) is answered with
\* status 400 and a detail message, and inserts no row.
C6_SchemaMismatchRejected ==
    [][\A q \in inflight :
          (Answers(q) /\ RequestJson(q.body) = "ok" /\ ~IsValid(q.body))
          => (resp'.status = 400 /\ resp'.detail # "" /\ db' = db)]_vars

\* C7: when save_event fails the caller gets status 500 with detail
\* "Internal server error" and nothing of the cause, the process stays up
\* and the store is as before; after such a failure a valid submission made
\* while the storage works is answered with status 200.
C7_SaveFailureIsolated ==
    [][\A q \in inflight :
          (Answers(q) /\ IsValid(q.body))
          => /\ ~storageOk =>
                    /\ resp'.status = 500
                    /\ resp'.detail = "Internal server error"
                    /\ consumer' = "up"
                    /\ db' = db
             /\ (storageOk /\ \E i \in 1..Len(history) :
                                    history[i].printed = SaveFailedLine)
                    => resp'.status = 200]_vars

\* One process answered 500 for a failed save and later 200.
C7_Witness ==
    \E i, j \in 1..Len(history) :
        /\ i < j
        /\ history[i].printed = SaveFailedLine
        /\ history[i].status = 500
        /\ history[j].status = 200
        /\ history[i].start = history[j].start

\* C8: with an empty catalog get_random_event gives None, start() once
\* called returns at once, and no send is ever issued.
C8_EmptyCatalogNoSends ==
    (ppc \notin {"main", "crashed"} /\ events = <<>>)
        => /\ get_random_event(events) = {NoEvent}
           /\ ppc = "returned"
           /\ sends = 0
           /\ outcomes = <<>>

\* The propagator was started on an empty catalog.
C8_Witness ==
    /\ ppc = "returned"
    /\ events = <<>>
    /\ consumer = "up"

\* Every send so far was answered with status 200.
AllDelivered ==
    /\ Len(outcomes) = sends
    /\ \A i \in 1..Len(outcomes) : outcomes[i] = "Delivered"

\* C9: with the catalog [login/user123], the endpoint running on an empty
\* store and every send delivered, once one tick has elapsed the store holds
\* exactly one row: login, user123, id 1.
C9_OneRowAfterOneTick ==
    (/\ events = <<Login>>
     /\ ppc \in {"loop", "sleeping"}
     /\ ticks = 1
     /\ AllDelivered
     /\ db["other.db"].rows = <<>>)
        => /\ Len(db[ConfigPath].rows) = 1
           /\ db[ConfigPath].rows[1].id = 1
           /\ db[ConfigPath].rows[1].event_type = "login"
           /\ db[ConfigPath].rows[1].event_payload = "user123"

\* C10: init_database on a location that is initialized, the storage
\* working, does not raise, leaves every row and the id sequence as they
\* were, and the next id is greater than every id given before.
C10_InitIdempotent ==
    [][(starts' = starts + 1 /\ storageOk)
          => /\ consumer' = "up"
             /\ \A l \in Locations : db[l].exists => db'[l] = db[l]
             /\ \A l \in Locations : \A i \in 1..Len(Issued(l)) :
                    NextId(db'[l]) > Issued(l)[i].event_id]_vars

\* The consumer was started again on a location that holds rows, and has
\* answered nothing since.
C10_Witness ==
    /\ consumer = "up"
    /\ starts >= 2
    /\ db[db_path].rows # <<>>
    /\ \A i \in 1..Len(history) : history[i].start < starts

\* The first status-200 response of the consumer process that gave history[i].
FirstSuccessOfStart(i) ==
    /\ history[i].status = 200
    /\ \A j \in 1..(i - 1) :
          ~(history[j].status = 200 /\ history[j].start = history[i].start)

\* C11 as stated: the first successful save of a consumer started with
\* --db-path on another location than the configured one returns id 1.
C11_OverrideStartsAtOne ==
    \A i \in 1..Len(history) :
        (FirstSuccessOfStart(i) /\ history[i].loc # ConfigPath)
            => history[i].event_id = 1

\* C11, amended: a start with --db-path initializes the overriding location
\* and serves from it, keeping every stored row; each save then goes to that
\* location only, leaves every other location as it was, and returns one
\* more than the number of rows the overriding location already holds (1 on
\* a location without rows), whatever the configured location holds.
C11_OverrideRepointsStorage ==
    [][/\ (consumer = "down" /\ consumer' = "up")
            => /\ db_path' = config_path'
               /\ db'[db_path'].exists
               /\ \A l \in Locations :
                     /\ db'[l].rows = db[l].rows
                     /\ db'[l].seq = db[l].seq
       /\ \A q \in Requests :
            Answers(q)
            => /\ db_path = config_path
               /\ \A l \in Locations \ {db_path} : db'[l] = db[l]
               /\ history'[Len(history')].loc = db_path
               /\ resp'.status = 200
                    => resp'.event_id = Len(db[db_path].rows) + 1]_vars

\* The consumer serves from the overriding location: its first save there
\* got id 1 while the configured location holds rows.
C11_Witness ==
    /\ consumer = "up"
    /\ db_path = "other.db"
    /\ db[ConfigPath].rows # <<>>
    /\ history # <<>>
    /\ FirstSuccessOfStart(Len(history))
    /\ history[Len(history)].start = starts
    /\ history[Len(history)].loc = "other.db"
    /\ history[Len(history)].event_id = 1

\* C12: whatever the order in which pending submissions are handled, every
\* successful one appends one row of its own: the row holds the fields of
\* that request and the id answered to it, the id is greater than every id
\* stored before, and the rows of a location are, in order, the successful
\* answers given for it, so no id is shared and no insert is lost.
C12_InsertsSerialized ==
    [][/\ \A q \in Requests :
            (Answers(q) /\ resp'.status = 200)
            => LET old == db[db_path].rows
                   new == db'[db_path].rows
               IN /\ new = Append(old, new[Len(new)])
                  /\ new[Len(new)].id = resp'.event_id
                  /\ new[Len(new)].event_type = q.body.event_type.s
                  /\ new[Len(new)].event_payload = q.body.event_payload.s
                  /\ \A i \in 1..Len(old) : old[i].id < resp'.event_id
       /\ \A l \in Locations :
            /\ Len(db'[l].rows) = Len(Issued(l)')
            /\ \A i \in 1..Len(db'[l].rows) :
                  db'[l].rows[i].id = Issued(l)'[i].event_id]_vars

\* Two submissions were pending together: one was answered with status
\* 200 and stored while the other, a valid one too, still waits.
C12_Witness ==
    /\ \E q \in inflight : q.slot = 2 /\ IsValid(q.body)
    /\ \A q \in inflight : q.slot # 1
    /\ clientReqs = 2
    /\ Len(history) = 1
    /\ resp.status = 200
    /\ db[db_path].rows # <<>>

\* The requests of the propagator that await their answer.
PropagatorRequests == {q \in inflight : q.slot = 0}

\* C13: at most one send of the propagator is unresolved, and only while
\* the loop awaits it: a send is issued only when every earlier one has its
\* outcome, the sleep begins only when the send of the pass has its outcome,
\* and while a send is under way no tick elapses and no send is issued.
C13_OneSendInFlight ==
    [][/\ sends' - Len(outcomes') \in {0, 1}
       /\ Cardinality(PropagatorRequests') <= 1
       /\ PropagatorRequests' # {} => ppc' = "sending"
       /\ ppc' = "sending" => sends' = Len(outcomes') + 1
       /\ ppc' \in {"loop", "sleeping"} => sends' = Len(outcomes')
       /\ sends' # sends => (sends' = sends + 1 /\ Len(outcomes) = sends)
       /\ (ppc = "sending" /\ ppc' \notin {"sleeping", "stopped"})
            => (ppc' = "sending" /\ ticks' = ticks /\ sends' = sends)
       /\ (ppc = "sending" /\ ppc' = "sleeping")
            => (Len(outcomes') = Len(outcomes) + 1 /\ ticks' = ticks)]_vars

\* The second send of the loop is under way, unanswered, after the first
\* one got its outcome and one tick elapsed.
C13_Witness ==
    /\ ppc = "sending"
    /\ preply = 0
    /\ sends = 2
    /\ Len(outcomes) = 1
    /\ ticks = 1
    /\ Cardinality(PropagatorRequests) = 1

\* C14: the number of requests issued never exceeds the number of ticks
\* elapsed (ticks below MaxTicks is the exact count), and a send that got
\* its outcome is followed by no request before the next tick.
C14_SendsWithinTicks ==
    /\ ticks < MaxTicks => sends <= ticks
    /\ ppc = "sleeping" => Cardinality(PropagatorRequests) = 0

\* C15: the loop leaves Idle only after a tick has elapsed, and each time
\* it does, the catalog not being empty, exactly one send is issued whatever
\* element was selected.
C15_SendOnlyOnTick ==
    [][(ppc = "loop" /\ ppc' \in {"sending", "sleeping"})
            => (ticks >= 1 /\ sends' = sends + 1)]_vars

\* C16: when the loop stops on a stop signal every send issued has its
\* outcome (a send under way is not aborted), and once stopped the loop
\* issues no further send.
C16_StopAfterSendResolves ==
    [][/\ ppc' = "stopped" => Len(outcomes') = sends'
       /\ ppc = "stopped" => (ppc' = "stopped" /\ sends' = sends)]_vars

\* C17: with a catalog that is not empty, no stop signal and every send
\* resolving, whatever the outcomes so far the loop issues a further send:
\* from the head of the loop with n sends issued, send n + 1 follows (n up
\* to MaxTicks, the number of sends the model counts).
C17_SendsRecur ==
    \A n \in 0..MaxTicks :
        (ppc = "loop" /\ events # <<>> /\ sends = n) ~> (sends > n)

\* rows is new with at most one row added at its end.
Appended(old, new) ==
    \/ new = old
    \/ /\ Len(new) = Len(old) + 1
       /\ SubSeq(new, 1, Len(old)) = old

\* C18: in every step of the consumer (start with its init_database calls,
\* stop, submission, handling of a submission, GET /) each location keeps
\* its table and every row it holds, with the same id, event_type,
\* event_payload and received_at; at most one row is added, at the end of
\* one location; and GET / changes nothing but the answer it gives.
C18_AppendOnly ==
    [][/\ \A l \in Locations :
            /\ db[l].exists => db'[l].exists
            /\ Appended(db[l].rows, db'[l].rows)
       /\ Cardinality({l \in Locations : db'[l].rows # db[l].rows}) <= 1
       /\ (\A q \in Requests : ~Answers(q)) => \A l \in Locations :
            db'[l].rows = db[l].rows
       /\ info' # info
            => UNCHANGED <<db, storageOk, consumer, db_path, config_path,
                           starts, inflight, resp, history>>]_vars

\* A restarted consumer answered GET / on a location that holds a row
\* stored by an earlier process.
C18_Witness ==
    /\ consumer = "up"
    /\ starts >= 2
    /\ info = db_path
    /\ Len(db[db_path].rows) = 1
    /\ history[Len(history)].start < starts

C19_CatalogReplacedOnReload ==
    [][/\ (ppc = "main" /\ ppc' # "main")
            => /\ ppc' # "crashed"
               /\ events' = IF EventsFiles[events_file'].state = "ok"
                             THEN EventsFiles[events_file'].events
                             ELSE <<>>
       /\ ppc # "main" => (events' = events /\ events_file' = events_file)
       /\ (ppc' # "main" /\ events' = <<>>) => sends' = 0]_vars

====
